---- MODULE Spec2Model ----
(***************************************************************************)
(* Real-time audio-to-action pipeline of the voice assistant backend:      *)
(* Session and SessionManager (services/session_service.py), the           *)
(* AudioProcessor segmenter (services/audio_service.py), the WhisperClient *)
(* adapter (clients/whisper_client.py) and the per-connection handler      *)
(* WebSocketService.handle_audio_connection                                *)
(* (services/websocket_service.py).                                        *)
(*                                                                         *)
(* Granularity: asyncio runs a coroutine without interruption between two  *)
(* awaits that suspend.  One action is one such uninterrupted block.  The  *)
(* suspending awaits are websocket.receive(), the transcription call       *)
(* (asyncio.to_thread), the action extraction call and the reaper's        *)
(* sleep and websocket.close().  A websocket send is taken together with   *)
(* the block that issues it; it either delivers the event or raises.       *)
(***************************************************************************)
EXTENDS Integers, Sequences, FiniteSets, TLC

(* ------------------------------ bounds --------------------------------- *)
\* connection handlers (websocket handles) that may ever be accepted
MaxConns == 3
\* steady-state frames one handler reads before the client goes away
MaxFrames == 1
\* connections a client makes one after the other, and the steady-state
\* frames it sends over them in total
MaxLoopConns == 2
MaxLoopFrames == 2
\* the clock stops advancing here
MaxTime == 2

\* windows' worth of bytes given to an AudioProcessor called on its own
MaxFedWindows == 3

\* the speech and silence run counters of an AudioProcessor called on its
\* own stop here
MaxRun == 31

\* final texts appended to the transcript of a Session called on its own
MaxHistory == 3

Conns == 1..MaxConns

(* ------------------------- program constants --------------------------- *)
\* whisper_client.py:48,96  context_words[-100:]
ContextCap == 100
\* whisper_client.py:111  len(text) < 20
MinFinalChars == 20
\* whisper_client.py:121  len(words) > 25
MaxOpenWords == 25

(* ---------------------- configuration values --------------------------- *)
\* settings.session_persistence_minutes (config.py:42), in clock ticks;
\* configurable, scaled down here
SessionPersistence == 0
\* SessionManager(session_timeout_minutes=...) (session_service.py:78), in
\* clock ticks; a constructor parameter, scaled down here
SessionTimeout == 1

\* AudioProcessor.chunk_size and buffer_size in bytes (audio_service.py:23-24,
\* from settings.audio_sample_rate, audio_chunk_duration_ms and
\* audio_buffer_duration_ms); scaled down here
chunk_size == 2
buffer_size == 4

(* ------------------------------ values --------------------------------- *)
\* Python None for a websocket reference / a datetime / an id or token
NoWs == 0
NoTime == 0 - 1
NoId == ""

(* ----------------------- text (Python str) ----------------------------- *)
\* A str is the sequence of its characters, each a one-character string.
IsSpace(ch) == ch = " "

RECURSIVE LStrip(_)
LStrip(t) == IF t # << >> /\ IsSpace(Head(t)) THEN LStrip(Tail(t)) ELSE t

RECURSIVE RStrip(_)
RStrip(t) ==
    IF t # << >> /\ IsSpace(t[Len(t)]) THEN RStrip(SubSeq(t, 1, Len(t) - 1)) ELSE t

\* str.strip()
Strip(t) == RStrip(LStrip(t))

\* str.split(): the maximal runs of non-whitespace characters
RECURSIVE SplitFrom(_, _, _)
SplitFrom(t, cur, acc) ==
    IF t = << >> THEN (IF cur = << >> THEN acc ELSE Append(acc, cur))
    ELSE IF IsSpace(Head(t))
         THEN SplitFrom(Tail(t), << >>, IF cur = << >> THEN acc ELSE Append(acc, cur))
         ELSE SplitFrom(Tail(t), Append(cur, Head(t)), acc)

Split(t) == SplitFrom(t, << >>, << >>)

\* " ".join(list)
RECURSIVE Join(_)
Join(ws) ==
    IF ws = << >> THEN << >>
    ELSE IF Len(ws) = 1 THEN ws[1]
    ELSE ws[1] \o <<" ">> \o Join(Tail(ws))

\* seq[-n:]
LastN(s, n) == IF Len(s) > n THEN SubSeq(s, Len(s) - n + 1, Len(s)) ELSE s

(* ------------------- Session (session_service.py) ---------------------- *)
\* Session.__init__: a Session object as a record of its fields.  metadata
\* keeps the one key the pipeline reads, session_token.
Session(session_id, websocket, t) ==
    [ session_id |-> session_id,
      websocket |-> websocket,
      connected_at |-> t,
      last_activity |-> t,
      paused_at |-> NoTime,
      full_transcript |-> << >>,
      current_buffer |-> << >>,
      audio_buffer |-> 0,
      metadata |-> NoId,
      is_active |-> TRUE,
      is_paused |-> FALSE,
      word_history |-> << >>,
      executed_actions |-> << >>,
      last_action_id |-> NoId ]

\* Session.update_activity
update_activity(s, t) == [s EXCEPT !.last_activity = t]

\* a faulty add_to_transcript that puts partial texts into the history too
add_to_transcript_all(s, text, is_final) ==
    IF Strip(text) # << >>
    THEN [s EXCEPT !.full_transcript = Append(@, Strip(text)),
                   !.current_buffer = IF is_final THEN << >> ELSE text]
    ELSE [s EXCEPT !.current_buffer = text]

\* a faulty add_to_transcript that adds a partial text to the buffer
add_to_transcript_concat(s, text, is_final) ==
    IF is_final /\ Strip(text) # << >>
    THEN [s EXCEPT !.full_transcript = Append(@, Strip(text)),
                   !.current_buffer = << >>]
    ELSE [s EXCEPT !.current_buffer = @ \o text]

\* Session.add_to_transcript
add_to_transcript(s, text, is_final) ==
    IF is_final /\ Strip(text) # << >>
    THEN [s EXCEPT !.full_transcript = Append(@, Strip(text)),
                   !.current_buffer = << >>]
    ELSE [s EXCEPT !.current_buffer = text]

\* a faulty get_full_text that leaves out the newest entry of the history
get_full_text_stale(s) ==
    Join(SubSeq(s.full_transcript, 1, Len(s.full_transcript) - 1))
        \o (IF s.current_buffer # << >> THEN <<" ">> \o s.current_buffer ELSE << >>)

\* Session.get_full_text
get_full_text(s) ==
    Join(s.full_transcript)
        \o (IF s.current_buffer # << >> THEN <<" ">> \o s.current_buffer ELSE << >>)

\* a faulty pause that keeps the websocket of the session
pause_keep_websocket(s, t) == [s EXCEPT !.is_paused = TRUE, !.paused_at = t]

\* Session.pause
pause(s, t) == [s EXCEPT !.is_paused = TRUE, !.paused_at = t, !.websocket = NoWs]

\* a faulty resume that starts the utterance buffer afresh
resume_clearing(s, websocket, t) ==
    update_activity([s EXCEPT !.is_paused = FALSE, !.paused_at = NoTime,
                              !.websocket = websocket,
                              !.current_buffer = << >>], t)

\* Session.resume
resume(s, websocket, t) ==
    update_activity([s EXCEPT !.is_paused = FALSE, !.paused_at = NoTime,
                              !.websocket = websocket], t)

\* Session.to_dict
to_dict(s) ==
    [ session_id |-> s.session_id,
      connected_at |-> s.connected_at,
      last_activity |-> s.last_activity,
      paused_at |-> s.paused_at,
      full_transcript |-> s.full_transcript,
      current_buffer |-> s.current_buffer,
      metadata |-> s.metadata,
      is_active |-> s.is_active,
      is_paused |-> s.is_paused ]

(* --------------- SessionManager (session_service.py) ------------------- *)
\* self.sessions is a Python dict: here the sequence of its items, in
\* insertion order, each [id, ref] with ref the Session object's address.
\* Session objects live in the heap, a function from addresses to records;
\* the Session constructed by the handler of websocket c has address c.
HasKey(d, id) == \E i \in 1..Len(d) : d[i].id = id

Get(d, id) == d[CHOOSE i \in 1..Len(d) : d[i].id = id].ref

\* d[id] = ref: an existing key keeps its place
SetItem(d, id, ref) ==
    IF HasKey(d, id)
    THEN [i \in 1..Len(d) |-> IF d[i].id = id THEN [id |-> id, ref |-> ref] ELSE d[i]]
    ELSE Append(d, [id |-> id, ref |-> ref])

\* del d[id]
DelItem(d, id) == SelectSeq(d, LAMBDA e : e.id # id)

\* str(uuid.uuid4()): the n-th value drawn, never equal to an earlier one
\* nor to an id a client made up
Uuid4(n) == <<"u1", "u2", "u3", "u4", "u5">>[n]

\* a faulty create_or_resume_session that resumes whatever is registered
\* under the id, paused or not
create_or_resume_session_any(h, d, websocket, session_id, metadata, n, t) ==
    IF session_id # NoId /\ HasKey(d, session_id)
    THEN LET ref == Get(d, session_id) IN
         [ heap |-> [h EXCEPT ![ref] = update_activity(
                        [@ EXCEPT !.is_paused = FALSE, !.paused_at = NoTime,
                                  !.websocket = websocket], t)],
           sessions |-> d,
           session |-> ref,
           is_resumed |-> TRUE,
           uuids |-> n ]
    ELSE LET new_session_id == IF session_id # NoId THEN session_id ELSE Uuid4(n + 1)
             made == [ session_id |-> new_session_id, websocket |-> websocket,
                       connected_at |-> t, last_activity |-> t,
                       paused_at |-> NoTime, full_transcript |-> << >>,
                       current_buffer |-> << >>, audio_buffer |-> 0,
                       metadata |-> metadata, is_active |-> TRUE,
                       is_paused |-> FALSE, word_history |-> << >>,
                       executed_actions |-> << >>, last_action_id |-> NoId ]
         IN
         [ heap |-> [r \in DOMAIN h \cup {websocket} |->
                        IF r = websocket THEN made ELSE h[r]],
           sessions |-> SetItem(d, new_session_id, websocket),
           session |-> websocket,
           is_resumed |-> FALSE,
           uuids |-> IF session_id # NoId THEN n ELSE n + 1 ]

\* SessionManager.create_or_resume_session.  h: heap, d: self.sessions,
\* n: uuid4 values drawn so far, t: datetime.now().  The result carries the
\* new heap and dict, the returned session's address and is_resumed.
create_or_resume_session(h, d, websocket, session_id, metadata, n, t) ==
    IF session_id # NoId /\ HasKey(d, session_id) /\ h[Get(d, session_id)].is_paused
    THEN LET ref == Get(d, session_id) IN
         [ heap |-> [h EXCEPT ![ref] = resume(@, websocket, t)],
           sessions |-> d,
           session |-> ref,
           is_resumed |-> TRUE,
           uuids |-> n ]
    ELSE LET new_session_id == IF session_id # NoId THEN session_id ELSE Uuid4(n + 1)
             made == [Session(new_session_id, websocket, t) EXCEPT !.metadata = metadata]
         IN
         [ heap |-> [r \in DOMAIN h \cup {websocket} |->
                        IF r = websocket THEN made ELSE h[r]],
           sessions |-> SetItem(d, new_session_id, websocket),
           session |-> websocket,
           is_resumed |-> FALSE,
           uuids |-> IF session_id # NoId THEN n ELSE n + 1 ]

\* SessionManager.create_session
create_session(h, d, websocket, metadata, n, t) ==
    create_or_resume_session(h, d, websocket, NoId, metadata, n, t)

\* SessionManager.pause_session: the new heap (the dict is not changed)
pause_session(h, d, session_id, t) ==
    IF HasKey(d, session_id)
    THEN [h EXCEPT ![Get(d, session_id)] = pause(@, t)]
    ELSE h

\* a faulty remove_session that marks the session and leaves the dict entry
remove_session_keep(h, d, session_id) ==
    IF HasKey(d, session_id)
    THEN [ heap |-> [h EXCEPT ![Get(d, session_id)].is_active = FALSE],
           sessions |-> d ]
    ELSE [ heap |-> h, sessions |-> d ]

\* SessionManager.remove_session: the new heap and dict
remove_session(h, d, session_id) ==
    IF HasKey(d, session_id)
    THEN [ heap |-> [h EXCEPT ![Get(d, session_id)].is_active = FALSE],
           sessions |-> DelItem(d, session_id) ]
    ELSE [ heap |-> h, sessions |-> d ]

\* a faulty expiry test that lets a session go when its time is just up
ExpiredAtLimit(s, t) ==
    IF s.is_paused /\ s.paused_at # NoTime
    THEN t - s.paused_at >= SessionPersistence
    ELSE IF ~s.is_paused
    THEN t - s.last_activity >= SessionTimeout
    ELSE FALSE

\* the expiry test of SessionManager._cleanup_inactive_sessions for one
\* dict entry
Expired(s, t) ==
    IF s.is_paused /\ s.paused_at # NoTime
    THEN t - s.paused_at > SessionPersistence
    ELSE IF ~s.is_paused
    THEN t - s.last_activity > SessionTimeout
    ELSE FALSE

\* the ids collected into inactive_sessions, in dict order
InactiveSessions(h, d, t) ==
    LET hit == SelectSeq(d, LAMBDA e : Expired(h[e.ref], t))
    IN [i \in 1..Len(hit) |-> hit[i].id]

(* ---------------- AudioProcessor (audio_service.py) -------------------- *)
\* Audio is a sequence of bytes.  The webrtcvad detector is outside the
\* repository; it is a function of the sub-frame's content: a sub-frame
\* holding byte 2 makes it raise, otherwise it reports speech exactly when
\* the sub-frame holds byte 1.
vad_is_speech(frame) ==
    IF \E i \in 1..Len(frame) : frame[i] = 2 THEN "raise"
    ELSE IF \E i \in 1..Len(frame) : frame[i] = 1 THEN "speech"
    ELSE "silence"

\* AudioProcessor.__init__
AudioProcessor(vad_enabled) ==
    [ audio_buffer |-> << >>,
      vad_enabled |-> vad_enabled,
      speech_frames |-> 0,
      silence_frames |-> 0,
      is_speech_active |-> FALSE ]

\* AudioProcessor._chunk_audio: the slices of full chunk_size, a shorter
\* last slice dropped
chunk_audio(audio_data) ==
    [k \in 1..(Len(audio_data) \div chunk_size) |->
        SubSeq(audio_data, (k - 1) * chunk_size + 1, k * chunk_size)]

\* a faulty handling of a detector error that takes the window for silence
detector_error_silence(ap) == [ap |-> ap, result |-> FALSE]

\* AudioProcessor._detect_speech, lines 78-79: the detector raised on a
\* sub-frame; True is returned and the counters are not touched
detector_error(ap) == [ap |-> ap, result |-> TRUE]

\* a faulty _detect_speech that keeps speech-active on through the 30th
\* window below the threshold
detect_speech_late(ap, audio_data) ==
    IF ~ap.vad_enabled THEN [ap |-> ap, result |-> TRUE]
    ELSE
    LET frames == chunk_audio(audio_data)
        verdict == [k \in 1..Len(frames) |-> vad_is_speech(frames[k])]
        speech_count == Cardinality({k \in 1..Len(frames) : verdict[k] = "speech"})
    IN
    IF \E k \in 1..Len(frames) : verdict[k] = "raise"
    THEN detector_error(ap)
    ELSE
    IF Len(frames) > 0 /\ speech_count * 10 > 3 * Len(frames)
    THEN LET a == [ap EXCEPT !.speech_frames = @ + 1, !.silence_frames = 0]
             b == IF a.speech_frames >= 2 THEN [a EXCEPT !.is_speech_active = TRUE] ELSE a
         IN [ap |-> b, result |-> b.is_speech_active]
    ELSE LET a == [ap EXCEPT !.silence_frames = @ + 1, !.speech_frames = 0]
             b == IF a.silence_frames > 30 THEN [a EXCEPT !.is_speech_active = FALSE] ELSE a
         IN [ap |-> b, result |-> b.is_speech_active]

\* a faulty _detect_speech that turns speech-active on with the first
\* speech window
detect_speech_eager(ap, audio_data) ==
    IF ~ap.vad_enabled THEN [ap |-> ap, result |-> TRUE]
    ELSE
    LET frames == chunk_audio(audio_data)
        verdict == [k \in 1..Len(frames) |-> vad_is_speech(frames[k])]
        speech_count == Cardinality({k \in 1..Len(frames) : verdict[k] = "speech"})
    IN
    IF \E k \in 1..Len(frames) : verdict[k] = "raise"
    THEN detector_error(ap)
    ELSE
    IF Len(frames) > 0 /\ speech_count * 10 > 3 * Len(frames)
    THEN [ap |-> [ap EXCEPT !.speech_frames = @ + 1, !.silence_frames = 0,
                            !.is_speech_active = TRUE],
          result |-> TRUE]
    ELSE LET a == [ap EXCEPT !.silence_frames = @ + 1, !.speech_frames = 0]
             b == IF a.silence_frames >= 30 THEN [a EXCEPT !.is_speech_active = FALSE] ELSE a
         IN [ap |-> b, result |-> b.is_speech_active]

\* AudioProcessor._detect_speech: the processor after the call and the
\* value returned
detect_speech(ap, audio_data) ==
    IF ~ap.vad_enabled THEN [ap |-> ap, result |-> TRUE]
    ELSE
    LET frames == chunk_audio(audio_data)
        verdict == [k \in 1..Len(frames) |-> vad_is_speech(frames[k])]
        speech_count == Cardinality({k \in 1..Len(frames) : verdict[k] = "speech"})
    IN
    IF \E k \in 1..Len(frames) : verdict[k] = "raise"
    THEN detector_error(ap)
    ELSE
    \* speech_ratio > self.speech_threshold (0.3), speech_ratio 0 without frames
    IF Len(frames) > 0 /\ speech_count * 10 > 3 * Len(frames)
    THEN LET a == [ap EXCEPT !.speech_frames = @ + 1, !.silence_frames = 0]
             b == IF a.speech_frames >= 2 THEN [a EXCEPT !.is_speech_active = TRUE] ELSE a
         IN [ap |-> b, result |-> b.is_speech_active]
    ELSE LET a == [ap EXCEPT !.silence_frames = @ + 1, !.speech_frames = 0]
             b == IF a.silence_frames >= 30 THEN [a EXCEPT !.is_speech_active = FALSE] ELSE a
         IN [ap |-> b, result |-> b.is_speech_active]

\* a faulty add_audio_chunk that hands out all it holds as soon as it holds
\* a sub-frame
add_audio_chunk_flush(ap, audio_data) ==
    LET buf == ap.audio_buffer \o audio_data IN
    IF Len(buf) >= chunk_size
    THEN [ap |-> [ap EXCEPT !.audio_buffer = << >>], result |-> buf]
    ELSE [ap |-> [ap EXCEPT !.audio_buffer = buf], result |-> << >>]

\* AudioProcessor.add_audio_chunk: the processor after the call and the
\* value returned (<< >> for None)
add_audio_chunk(ap, audio_data) ==
    LET buf == ap.audio_buffer \o audio_data IN
    IF Len(buf) >= buffer_size
    THEN LET audio_to_process == SubSeq(buf, 1, buffer_size)
             rest == [ap EXCEPT !.audio_buffer = SubSeq(buf, buffer_size + 1, Len(buf))]
         IN
         IF rest.vad_enabled
         THEN LET ds == detect_speech(rest, audio_to_process) IN
              IF ds.result THEN [ap |-> ds.ap, result |-> audio_to_process]
              ELSE IF ds.ap.is_speech_active
                   THEN [ap |-> ds.ap, result |-> audio_to_process]
                   ELSE [ap |-> ds.ap, result |-> << >>]
         ELSE [ap |-> rest, result |-> audio_to_process]
    ELSE [ap |-> [ap EXCEPT !.audio_buffer = buf], result |-> << >>]

(* ---------------- WhisperClient (whisper_client.py) -------------------- *)
\* sentence_endings of _is_sentence_complete; the three full-width
\* characters are written by their code points
SentenceEndings == {".", "!", "?", "U+3002", "U+FF01", "U+FF1F"}

\* a faulty _is_sentence_complete that does not strip the text
is_sentence_complete_unstripped(text) ==
    IF Len(text) < MinFinalChars THEN FALSE
    ELSE IF text[Len(text)] \in SentenceEndings THEN TRUE
    ELSE IF Len(Split(text)) > MaxOpenWords THEN TRUE
    ELSE FALSE

\* WhisperClient._is_sentence_complete
is_sentence_complete(text) ==
    IF text = << >> THEN FALSE
    ELSE LET t == Strip(text) IN
         IF Len(t) < MinFinalChars THEN FALSE
         ELSE IF t[Len(t)] \in SentenceEndings THEN TRUE
         ELSE IF Len(Split(t)) > MaxOpenWords THEN TRUE
         ELSE FALSE

\* a faulty except clause that hands the error text to the caller
except_result_text(context_words) ==
    [text |-> <<"e", "r", "r">>, is_final |-> FALSE, context |-> context_words]

\* the except clause of transcribe_stream (lines 100-102), entered with
\* context_words as bound at that moment
except_result(context_words) ==
    [text |-> << >>, is_final |-> FALSE, context |-> context_words]

\* WhisperClient.transcribe_stream.  engine is what the calls into the
\* outside do: kind "io_error" (writing the wav file raises, before
\* context_words is cut), "engine_error" (model.transcribe raises) or
\* "segments" with segs the segments returned, each [text, no_speech,
\* gibberish] (no_speech: no_speech_prob > 0.6, gibberish:
\* compression_ratio > 2.4).  The result is the returned triple.
transcribe_stream(audio_data, context_words, engine) ==
    LET cut == IF Len(context_words) > ContextCap
               THEN LastN(context_words, ContextCap) ELSE context_words
    IN
    IF engine.kind = "io_error"
    THEN except_result(context_words)
    ELSE IF engine.kind = "engine_error"
    THEN except_result(cut)
    ELSE IF engine.segs = << >>
    THEN [text |-> << >>, is_final |-> FALSE, context |-> cut]
    ELSE IF \E i \in 1..Len(engine.segs) : engine.segs[i].no_speech \/ engine.segs[i].gibberish
    THEN [text |-> << >>, is_final |-> FALSE, context |-> cut]
    ELSE LET full_text == Join([i \in 1..Len(engine.segs) |-> Strip(engine.segs[i].text)])
             is_final == is_sentence_complete(full_text)
         IN [ text |-> full_text,
              is_final |-> is_final,
              context |-> IF is_final /\ Strip(full_text) # << >>
                          THEN LastN(cut \o Split(full_text), ContextCap)
                          ELSE cut ]

(* ------------------------------ state ---------------------------------- *)
VARIABLES
    heap,               \* the Session objects, by address
    sessions,           \* SessionManager.sessions
    uuids,              \* uuid4 values drawn so far
    now,                \* datetime.now(), in clock ticks
    vad_enabled,        \* settings.vad_enabled
    pc,                 \* where each handle_audio_connection call stands
    session,            \* its local session (an address; NoWs before it has one)
    is_resumed,         \* its local is_resumed
    audio_processor,    \* its local audio_processor
    call,               \* the arguments of its transcribe_stream call in flight
    first_message,      \* its local first_message, "none" before the wait ends
    message,            \* its local message, the last steady-state frame read
    frames,             \* steady-state frames it has read
    ws_open,            \* whether a send on the websocket is delivered
    events,             \* the events delivered to the client of each websocket
    cleanup_pc,         \* where _cleanup_inactive_sessions stands
    inactive_sessions,  \* the part of its inactive_sessions list not yet removed
    fed,                \* the bytes given to add_audio_chunk called on its own
    returned,           \* the windows those calls returned
    stop_pc,            \* where SessionManager.stop stands
    checked_text,       \* the text given to _is_sentence_complete called on its own
    checked_final       \* what that call returned, << >> before it

vars == << heap, sessions, uuids, now, vad_enabled, pc, session, is_resumed,
           audio_processor, call, first_message, message, frames, ws_open,
           events, cleanup_pc, inactive_sessions, fed, returned, stop_pc, checked_text, checked_final >>

NoCall == [audio |-> << >>, context_words |-> << >>]
NoMessage == [kind |-> "none"]

Init ==
    /\ heap = << >>
    /\ sessions = << >>
    /\ uuids = 0
    /\ now = 0
    /\ vad_enabled \in BOOLEAN
    /\ pc = [c \in Conns |-> "idle"]
    /\ session = [c \in Conns |-> NoWs]
    /\ is_resumed = [c \in Conns |-> FALSE]
    /\ audio_processor = [c \in Conns |-> AudioProcessor(FALSE)]
    /\ call = [c \in Conns |-> NoCall]
    /\ first_message = [c \in Conns |-> NoMessage]
    /\ message = [c \in Conns |-> NoMessage]
    /\ frames = [c \in Conns |-> 0]
    /\ ws_open = [c \in Conns |-> FALSE]
    /\ events = [c \in Conns |-> << >>]
    /\ cleanup_pc = "sleep"
    /\ inactive_sessions = << >>
    /\ fed = << >>
    /\ returned = << >>
    /\ stop_pc = "idle"
    /\ checked_text = << >>
    /\ checked_final = << >>

(* ----------- WebSocketService (websocket_service.py) ------------------- *)
\* websocket.send_json(ev) on websocket w, given the events delivered so
\* far: the events afterwards, and whether the send raised
send_json(ev, w, msg) ==
    IF w # NoWs /\ ws_open[w]
    THEN [events |-> [ev EXCEPT ![w] = Append(@, msg)], raised |-> FALSE]
    ELSE [events |-> ev, raised |-> TRUE]

\* the finally block of handle_audio_connection (lines 158-169), entered
\* with heap h and delivered events ev
Finally(c, h, ev) ==
    /\ heap' = pause_session(h, sessions, h[session[c]].session_id, now)
    /\ events' = ev
    /\ ws_open' = [ws_open EXCEPT ![c] = FALSE]
    /\ pc' = [pc EXCEPT ![c] = "done"]

\* the except Exception block (lines 144-157) followed by finally
ExceptException(c, h, ev, error) ==
    Finally(c, h, send_json(ev, c, [type |-> "error", message |-> error]).events)

\* a faulty lifecycle event that announces every session as started
lifecycle_event_started(s, resumed) ==
    [ type |-> "session_started",
      session_id |-> s.session_id,
      is_resumed |-> FALSE,
      transcript |-> << >> ]

\* lines 75-83: the lifecycle event for session s
lifecycle_event(s, resumed) ==
    [ type |-> IF resumed THEN "session_resumed" ELSE "session_started",
      session_id |-> s.session_id,
      is_resumed |-> resumed,
      transcript |-> IF resumed THEN s.full_transcript ELSE << >> ]

\* lines 32-83: the connection is accepted, the wait for the first message
\* ends (with a message or by the 5 s timeout), the session is created or
\* resumed, the AudioProcessor is built and the lifecycle event is sent.
\* Nothing of the state is read or written between accept() and the end of
\* the wait, so the two are one step, taken when the wait ends.  Websocket
\* handles are numbered in that order.
\* m is first_message; m.kind: "timeout", "disconnect", "bytes", or "text"
\* with json "bad" (json.loads raises), "other" (no type init) or "init".
Startup(c, m) ==
    /\ pc[c] = "idle"
    /\ \A k \in Conns : k < c => pc[k] # "idle"
    /\ first_message' = [first_message EXCEPT ![c] = m]
    /\ LET init == m.kind = "text" /\ m.json = "init"
           made == IF init
                   THEN create_or_resume_session(heap, sessions, c,
                            m.session_id, NoId, uuids, now)
                   ELSE create_session(heap, sessions, c, NoId, uuids, now)
           h == IF init /\ m.session_token # NoId
                THEN [made.heap EXCEPT ![made.session].metadata = m.session_token]
                ELSE made.heap
           open == [ws_open EXCEPT ![c] = m.kind # "disconnect"]
           lifecycle == lifecycle_event(h[made.session], made.is_resumed)
       IN
       /\ heap' = h
       /\ sessions' = made.sessions
       /\ uuids' = made.uuids
       /\ session' = [session EXCEPT ![c] = made.session]
       /\ is_resumed' = [is_resumed EXCEPT ![c] = made.is_resumed]
       /\ audio_processor' = [audio_processor EXCEPT ![c] = AudioProcessor(vad_enabled)]
       /\ ws_open' = open
       /\ IF open[c]
          THEN /\ events' = [events EXCEPT ![c] = Append(@, lifecycle)]
               /\ pc' = [pc EXCEPT ![c] = "receive"]
          ELSE \* send_json raises outside the try block: the call ends
               /\ events' = events
               /\ pc' = [pc EXCEPT ![c] = "done"]
    /\ UNCHANGED << now, vad_enabled, call, message, frames, cleanup_pc,
                    inactive_sessions, fed, returned, stop_pc, checked_text, checked_final >>

\* a faulty handler that reads the next frame while its transcribe_stream
\* call is still going on
ReceivingAnytime(c) == pc[c] \in {"receive", "transcribe"} /\ ws_open[c]

\* line 87: the handler is suspended in websocket.receive() and a frame of
\* the client can reach it
Receiving(c) == pc[c] = "receive" /\ ws_open[c]

\* a faulty else branch that answers a command it does not know
UnknownCommandAnswered(c, data) ==
    /\ events' = [events EXCEPT ![c] = Append(@, [type |-> "error", message |-> "unknown"])]
    /\ UNCHANGED << heap, ws_open, pc >>

\* _handle_control_message when no branch of lines 174-209 matches: nothing
\* is sent or written, line 211 returns False
UnknownCommand(c, data) == UNCHANGED << heap, events, ws_open, pc >>

\* a faulty clear_transcript branch that empties the word context as well
clear_transcript_all(s) ==
    [s EXCEPT !.full_transcript = << >>, !.current_buffer = << >>,
              !.word_history = << >>]

\* lines 199-200: what the clear_transcript branch writes to the session
clear_transcript(s) ==
    [s EXCEPT !.full_transcript = << >>, !.current_buffer = << >>]

\* lines 87-93 with _handle_control_message (lines 171-211): a text frame
\* holding the JSON object data is received.  The answers go out on
\* session.websocket.
RecvControl(c, data) ==
    /\ Receiving(c)
    /\ frames' = [frames EXCEPT ![c] = @ + 1]
    /\ message' = [message EXCEPT ![c] = [kind |-> "text", data |-> data]]
    /\ LET s == heap[session[c]]
           w == s.websocket
       IN
       CASE data.command = "stop_recording" ->
                LET r == send_json(events, w,
                             [ type |-> "session_paused",
                               session_id |-> s.session_id,
                               final_transcript |-> get_full_text(s),
                               can_resume |-> TRUE,
                               resume_timeout_minutes |-> 10 ])
                IN IF r.raised
                   THEN ExceptException(c, heap, r.events, "send")
                   ELSE Finally(c, heap, r.events)
         [] data.command = "get_transcript" ->
                LET r == send_json(events, w,
                             [ type |-> "transcript",
                               full_transcript |-> s.full_transcript,
                               current_buffer |-> s.current_buffer ])
                IN IF r.raised
                   THEN ExceptException(c, heap, r.events, "send")
                   ELSE /\ events' = r.events
                        /\ UNCHANGED << heap, ws_open, pc >>
         [] data.command = "clear_transcript" ->
                LET h == [heap EXCEPT ![session[c]] = clear_transcript(@)]
                    r == send_json(events, w, [type |-> "transcript_cleared"])
                IN IF r.raised
                   THEN ExceptException(c, h, r.events, "send")
                   ELSE /\ events' = r.events
                        /\ heap' = h
                        /\ UNCHANGED << ws_open, pc >>
         [] data.command = "get_session_info" ->
                LET r == send_json(events, w, [type |-> "session_info", data |-> to_dict(s)])
                IN IF r.raised
                   THEN ExceptException(c, heap, r.events, "send")
                   ELSE /\ events' = r.events
                        /\ UNCHANGED << heap, ws_open, pc >>
         [] OTHER -> UnknownCommand(c, data)
    /\ UNCHANGED << sessions, uuids, now, vad_enabled, session, is_resumed,
                    audio_processor, call, cleanup_pc, inactive_sessions,
                    first_message, fed, returned, stop_pc, checked_text, checked_final >>

\* lines 89-90: a text frame that json.loads rejects, or whose JSON value
\* is not an object (data.get raises)
RecvMalformed(c, kind) ==
    /\ Receiving(c)
    /\ frames' = [frames EXCEPT ![c] = @ + 1]
    /\ message' = [message EXCEPT ![c] = [kind |-> "text", malformed |-> kind]]
    /\ ExceptException(c, heap, events, kind)
    /\ UNCHANGED << sessions, uuids, now, vad_enabled, session, is_resumed,
                    audio_processor, call, cleanup_pc, inactive_sessions,
                    first_message, fed, returned, stop_pc, checked_text, checked_final >>

\* lines 95-110 and 140: a binary frame is received; a window goes to
\* transcribe_stream, which suspends the handler
RecvBytes(c, audio_chunk) ==
    /\ Receiving(c)
    /\ frames' = [frames EXCEPT ![c] = @ + 1]
    /\ message' = [message EXCEPT ![c] = [kind |-> "bytes", bytes |-> audio_chunk]]
    /\ LET h == [heap EXCEPT ![session[c]].audio_buffer = @ + Len(audio_chunk)]
           r == add_audio_chunk(audio_processor[c], audio_chunk)
       IN
       /\ audio_processor' = [audio_processor EXCEPT ![c] = r.ap]
       /\ IF r.result # << >>
          THEN /\ call' = [call EXCEPT ![c] =
                     [audio |-> r.result, context_words |-> h[session[c]].word_history]]
               /\ pc' = [pc EXCEPT ![c] = "transcribe"]
               /\ heap' = h
          ELSE /\ heap' = [h EXCEPT ![session[c]] = update_activity(@, now)]
               /\ UNCHANGED << call, pc >>
    /\ UNCHANGED << sessions, uuids, now, vad_enabled, session, is_resumed,
                    ws_open, events, cleanup_pc, inactive_sessions,
                    first_message, fed, returned, stop_pc, checked_text, checked_final >>

\* lines 87 and 142-169: the client has gone or the server side closed the
\* websocket; receive() yields the disconnect message and raises on the
\* next call, client_state is no longer CONNECTED
RecvDisconnect(c) ==
    /\ pc[c] = "receive"
    /\ message' = [message EXCEPT ![c] = [kind |-> "disconnect"]]
    /\ Finally(c, heap, events)
    /\ UNCHANGED << sessions, uuids, now, vad_enabled, session, is_resumed,
                    audio_processor, call, frames, cleanup_pc,
                    inactive_sessions, first_message, fed, returned, stop_pc, checked_text, checked_final >>

\* the client goes away while the handler is suspended in a call
ClientGone(c) ==
    /\ pc[c] \in {"transcribe", "extract"} /\ ws_open[c]
    /\ ws_open' = [ws_open EXCEPT ![c] = FALSE]
    /\ UNCHANGED << heap, sessions, uuids, now, vad_enabled, pc, session,
                    is_resumed, audio_processor, call, frames, events,
                    cleanup_pc, inactive_sessions, first_message, message,
                    fed, returned, stop_pc, checked_text, checked_final >>

\* lines 103-140: transcribe_stream returns
TranscribeDone(c, engine) ==
    /\ pc[c] = "transcribe"
    /\ LET r == transcribe_stream(call[c].audio, call[c].context_words, engine)
           h1 == IF r.is_final /\ r.context # << >>
                 THEN [heap EXCEPT ![session[c]].word_history = r.context]
                 ELSE heap
           h2 == [h1 EXCEPT ![session[c]] = add_to_transcript(@, r.text, r.is_final)]
           s == h2[session[c]]
           e1 == send_json(events, c,
                     [ type |-> "transcription",
                       text |-> r.text,
                       is_final |-> r.is_final,
                       session_id |-> s.session_id,
                       full_transcript |-> get_full_text(s) ])
           e2 == send_json(e1.events, c,
                     [ type |-> "sentence_complete",
                       sentence |-> r.text,
                       total_sentences |-> Len(s.full_transcript) ])
       IN
       IF r.text = << >>
       THEN /\ heap' = [h1 EXCEPT ![session[c]] = update_activity(@, now)]
            /\ pc' = [pc EXCEPT ![c] = "receive"]
            /\ UNCHANGED << events, ws_open >>
       ELSE IF e1.raised
       THEN ExceptException(c, h2, e1.events, "send")
       ELSE IF ~r.is_final
       THEN /\ heap' = [h2 EXCEPT ![session[c]] = update_activity(@, now)]
            /\ events' = e1.events
            /\ pc' = [pc EXCEPT ![c] = "receive"]
            /\ UNCHANGED ws_open
       ELSE IF e2.raised
       THEN ExceptException(c, h2, e2.events, "send")
       ELSE \* line 139: await self._extract_and_execute_actions(...)
            /\ heap' = h2
            /\ events' = e2.events
            /\ pc' = [pc EXCEPT ![c] = "extract"]
            /\ UNCHANGED ws_open
    /\ UNCHANGED << sessions, uuids, now, vad_enabled, session, is_resumed,
                    audio_processor, call, frames, cleanup_pc,
                    inactive_sessions, first_message, message, fed,
                    returned, stop_pc, checked_text, checked_final >>

\* _extract_and_execute_actions and _execute_github_action (lines 213-351)
\* return.  They catch whatever is raised inside; a send that raises ends
\* them.  outcome: "error" (the result holds an error), "no_actions",
\* "task" (actions, none a confident github_action), "github_ok" (the
\* GitHub call succeeded) or "github_error" (credentials missing or the
\* call failed); without a session_token action_error is sent.
ExtractDone(c, outcome) ==
    /\ pc[c] = "extract"
    /\ LET s == heap[session[c]]
           e1 == IF outcome \in {"error", "no_actions"}
                 THEN [events |-> events, raised |-> FALSE]
                 ELSE send_json(events, c, [type |-> "actions_extracted", actions |-> outcome])
           e2 == IF outcome \in {"error", "no_actions", "task"} \/ e1.raised
                 THEN e1
                 ELSE IF s.metadata = NoId \/ outcome = "github_error"
                 THEN send_json(e1.events, c, [type |-> "action_error"])
                 ELSE send_json(e1.events, c, [type |-> "action_executed"])
       IN
       /\ events' = e2.events
       /\ heap' = [heap EXCEPT ![session[c]] = update_activity(@, now)]
       /\ pc' = [pc EXCEPT ![c] = "receive"]
    /\ UNCHANGED << sessions, uuids, now, vad_enabled, session, is_resumed,
                    audio_processor, call, frames, ws_open, cleanup_pc,
                    inactive_sessions, first_message, message, fed,
                    returned, stop_pc, checked_text, checked_final >>

(* ---------- the reaper: SessionManager._cleanup_inactive_sessions ------ *)
\* The for loop of lines 178-186 over the ids left, run until it suspends
\* in websocket.close() or ends.  close() marks the websocket closed when
\* called.  The result: heap, dict, ws_open, the ids left (the first being
\* the one whose websocket is closing) and the reaper's position.
RECURSIVE CleanupLoop(_, _, _, _)
CleanupLoop(h, d, open, ids) ==
    IF ids = << >>
    THEN [heap |-> h, sessions |-> d, ws_open |-> open, ids |-> ids, pc |-> "sleep"]
    ELSE IF HasKey(d, Head(ids)) /\ h[Get(d, Head(ids))].websocket # NoWs
    THEN [ heap |-> h, sessions |-> d,
           ws_open |-> [open EXCEPT ![h[Get(d, Head(ids))].websocket] = FALSE],
           ids |-> ids, pc |-> "close" ]
    ELSE LET r == remove_session(h, d, Head(ids))
         IN CleanupLoop(r.heap, r.sessions, open, Tail(ids))

\* lines 164-186: the sleep ends, the expired ids are collected and the
\* removals start
CleanupWake ==
    /\ cleanup_pc = "sleep"
    /\ LET r == CleanupLoop(heap, sessions, ws_open,
                            InactiveSessions(heap, sessions, now))
       IN /\ heap' = r.heap
          /\ sessions' = r.sessions
          /\ ws_open' = r.ws_open
          /\ inactive_sessions' = r.ids
          /\ cleanup_pc' = r.pc
    /\ UNCHANGED << uuids, now, vad_enabled, pc, session, is_resumed,
                    audio_processor, call, frames, events, first_message,
                    message, fed, returned, stop_pc, checked_text, checked_final >>

\* a faulty loop body that lets what close() raises leave the for loop: the
\* except Exception clause of line 190 ends the cycle
AfterCloseUncaught(h, d, open, ids, outcome) ==
    IF outcome = "returned"
    THEN LET rm == remove_session(h, d, Head(ids))
         IN CleanupLoop(rm.heap, rm.sessions, open, Tail(ids))
    ELSE [heap |-> h, sessions |-> d, ws_open |-> open, ids |-> << >>, pc |-> "sleep"]

\* lines 181-186 once the await of websocket.close() has ended, with
\* outcome "returned", "raised" (close raised an exception) or "cancelled"
\* (CancelledError was thrown into the await).  The bare except of line 183
\* catches whatever is raised, so the session is removed and the loop goes
\* on in each case.
AfterClose(h, d, open, ids, outcome) ==
    LET rm == remove_session(h, d, Head(ids))
    IN CleanupLoop(rm.heap, rm.sessions, open, Tail(ids))

\* lines 182-186: the await of websocket.close() ends.  The outcome
\* "cancelled" is SessionManager.stop (lines 87-93) cancelling the task while
\* it is suspended there; stop then awaits the task.
CleanupClosed(outcome) ==
    /\ cleanup_pc = "close"
    /\ outcome = "cancelled" => stop_pc = "idle"
    /\ LET r == AfterClose(heap, sessions, ws_open, inactive_sessions, outcome)
       IN /\ heap' = r.heap
          /\ sessions' = r.sessions
          /\ ws_open' = r.ws_open
          /\ inactive_sessions' = r.ids
          /\ cleanup_pc' = r.pc
    /\ stop_pc' = IF outcome = "cancelled" THEN "await" ELSE stop_pc
    /\ UNCHANGED << uuids, now, vad_enabled, pc, session, is_resumed,
                    audio_processor, call, frames, events, first_message,
                    message, fed, returned, checked_text, checked_final >>

\* SessionManager.stop (lines 87-93) called while the task is suspended in
\* asyncio.sleep: CancelledError reaches the except clause of line 188, the
\* loop is left and the task ends; stop awaits the task
StopInSleep ==
    /\ stop_pc = "idle"
    /\ cleanup_pc = "sleep"
    /\ cleanup_pc' = "done"
    /\ stop_pc' = "await"
    /\ UNCHANGED << heap, sessions, uuids, now, vad_enabled, pc, session,
                    is_resumed, audio_processor, call, frames, ws_open,
                    events, inactive_sessions, first_message, message, fed,
                    returned, checked_text, checked_final >>

\* lines 90-93: the awaited task has ended and stop returns
StopReturns ==
    /\ stop_pc = "await"
    /\ cleanup_pc = "done"
    /\ stop_pc' = "returned"
    /\ UNCHANGED << heap, sessions, uuids, now, vad_enabled, pc, session,
                    is_resumed, audio_processor, call, frames, ws_open,
                    events, cleanup_pc, inactive_sessions, first_message,
                    message, fed, returned, checked_text, checked_final >>

\* time passes
Tick ==
    /\ now < MaxTime
    /\ now' = now + 1
    /\ UNCHANGED << heap, sessions, uuids, vad_enabled, pc, session,
                    is_resumed, audio_processor, call, frames, ws_open,
                    events, cleanup_pc, inactive_sessions, first_message,
                    message, fed, returned, stop_pc, checked_text, checked_final >>

(* ------------------------------ inputs --------------------------------- *)
\* a 20-character sentence and a short fragment
Sentence ==
    << "o", "p", "e", "n", " ", "a", "n", " ", "i", "s", "s", "u", "e", " ",
       "t", "o", "d", "a", "y", "." >>
Fragment == << "o", "p", "e", "n" >>

Seg(text) == [text |-> text, no_speech |-> FALSE, gibberish |-> FALSE]

EngineFails ==
    { [kind |-> "io_error", segs |-> << >>],
      [kind |-> "engine_error", segs |-> << >>] }

Engines ==
    EngineFails \cup
    { [kind |-> "segments", segs |-> << >>],
      [kind |-> "segments", segs |-> << [Seg(Fragment) EXCEPT !.no_speech = TRUE] >>],
      [kind |-> "segments", segs |-> << Seg(Fragment) >>],
      [kind |-> "segments", segs |-> << Seg(Sentence) >>] }

SpecEngines == { [kind |-> "segments", segs |-> << Seg(Fragment) >>] }

ExtractOutcomes == {"error", "no_actions", "task", "github_ok", "github_error"}

\* one window of speech, a chunk of silence, a window on which the detector
\* raises
Window == [i \in 1..buffer_size |-> 1]
AudioChunks == { Window, [i \in 1..chunk_size |-> 0], [i \in 1..buffer_size |-> 2] }

\* the ids the server has handed out
IssuedIds == {Uuid4(n) : n \in 1..uuids}

InitMessages(ids, tokens) ==
    { [kind |-> "text", json |-> "init", session_id |-> i, session_token |-> t] :
        i \in ids, t \in tokens }

OtherFirstMessages ==
    { [kind |-> k] : k \in {"timeout", "disconnect"} }
    \cup { [kind |-> "bytes", bytes |-> Window] }
    \cup { [kind |-> "text", json |-> j] : j \in {"bad", "other"} }

\* the first message of Spec when it is no init: the client leaves at once
SpecFirstMessages == { [kind |-> "disconnect"] }

\* how the await of websocket.close() ends when nothing cancels the reaper
CloseOutcomes == {"returned", "raised"}

Commands == {"stop_recording", "get_transcript", "clear_transcript",
             "get_session_info", "ping"}


(* --------------------------- specifications ---------------------------- *)
\* Spec: up to MaxConns handlers, the reaper and the clock.  Each handler
\* reads at most MaxFrames steady-state frames: a stop command, a malformed
\* frame or a window of audio, transcribed to a fragment.
Next ==
    \/ \E c \in Conns : \E m \in SpecFirstMessages : Startup(c, m)
    \/ \E c \in Conns : \E m \in InitMessages(IssuedIds \cup {NoId}, {NoId}) : Startup(c, m)
    \/ \E c \in Conns : frames[c] < MaxFrames /\ RecvControl(c, [command |-> "stop_recording"])
    \/ \E c \in Conns : frames[c] < MaxFrames /\ RecvMalformed(c, "bad_json")
    \/ \E c \in Conns : frames[c] < MaxFrames /\ RecvBytes(c, Window)
    \/ \E c \in Conns : RecvDisconnect(c)
    \/ \E c \in Conns : \E e \in SpecEngines : TranscribeDone(c, e)
    \/ CleanupWake
    \/ \E o \in CloseOutcomes : CleanupClosed(o)
    \/ Tick

\* settings.vad_enabled is False in Spec
SpecInit == Init /\ ~vad_enabled

Spec == SpecInit /\ [][Next]_vars

\* LoopSpec: a client that makes up to MaxLoopConns connections, one after
\* the other, and sends up to MaxLoopFrames steady-state frames of every
\* kind over them, with VAD on or off; the clock stands still.
LoopConns == 1..MaxLoopConns

RECURSIVE FramesRead(_)
FramesRead(c) == IF c = 0 THEN 0 ELSE frames[c] + FramesRead(c - 1)

MoreFrames == FramesRead(MaxLoopConns) < MaxLoopFrames

LoopNext ==
    \/ \E c \in LoopConns : \E m \in OtherFirstMessages :
            (\A k \in 1..(c - 1) : pc[k] = "done") /\ Startup(c, m)
    \/ \E c \in LoopConns : \E m \in InitMessages(IssuedIds \cup {NoId, "x"}, {NoId, "tok"}) :
            (\A k \in 1..(c - 1) : pc[k] = "done") /\ Startup(c, m)
    \/ \E c \in LoopConns : \E cmd \in Commands :
            MoreFrames /\ RecvControl(c, [command |-> cmd])
    \/ \E c \in LoopConns : \E k \in {"bad_json", "not_object"} :
            MoreFrames /\ RecvMalformed(c, k)
    \/ \E c \in LoopConns : \E a \in AudioChunks :
            MoreFrames /\ RecvBytes(c, a)
    \/ \E c \in LoopConns : RecvDisconnect(c)
    \/ \E c \in LoopConns : ClientGone(c)
    \/ \E c \in LoopConns : \E e \in Engines : TranscribeDone(c, e)
    \/ \E c \in LoopConns : \E o \in ExtractOutcomes : ExtractDone(c, o)

LoopSpec == Init /\ [][LoopNext]_vars

(* ------------------------------ claims --------------------------------- *)
\* a handler that has its session and has not ended
Live(c) == pc[c] \in {"receive", "transcribe", "extract"}

\* the Session object at address ref is what the registry holds under its id
Registered(h, d, ref) ==
    HasKey(d, h[ref].session_id) /\ Get(d, h[ref].session_id) = ref

\* C1: no Session object is the working session of two live handlers at the
\* same time.
C1_NoSharedSession ==
    \A a, b \in Conns : (a # b /\ Live(a) /\ Live(b)) => session[a] # session[b]

\* C2: a handler that starts with an init frame naming a registered session
\* that is not paused gets is_resumed = False and a Session object that did
\* not exist before, with empty transcript, buffer, word context and action
\* ledger; the registered session is not written and stays the working
\* session of the handlers that had it, and of no other.
C2_ActiveIdCreatesNew ==
    [][ \A c \in Conns : \A m \in InitMessages(IssuedIds, {NoId}) :
          ( /\ Startup(c, m)
            /\ HasKey(sessions, m.session_id)
            /\ ~heap[Get(sessions, m.session_id)].is_paused )
          => LET old == Get(sessions, m.session_id)
                 new == heap'[session'[c]]
             IN /\ ~is_resumed'[c]
                /\ session'[c] \notin DOMAIN heap
                /\ session'[c] # old
                /\ new.session_id = m.session_id
                /\ new.full_transcript = << >>
                /\ new.current_buffer = << >>
                /\ new.word_history = << >>
                /\ new.executed_actions = << >>
                /\ heap'[old] = heap[old]
                /\ \A k \in Conns \ {c} : session'[k] = session[k]
      ]_vars

\* C2, its case: two live handlers work on different Session objects of one
\* session_id, the later one having asked for that id while the earlier
\* one's session was in use and holding text
C2_Witness ==
    \E a, b \in Conns :
        /\ a < b /\ Live(a) /\ Live(b)
        /\ session[a] = a /\ session[b] = b
        /\ ~is_resumed[b]
        /\ first_message[b].kind = "text"
        /\ first_message[b].session_id = heap[a].session_id
        /\ heap[b].session_id = heap[a].session_id
        /\ heap[a].current_buffer # << >>
        /\ heap[a].connected_at <= heap[b].connected_at
        /\ ~heap[a].is_paused

C4_EndLeavesSessionPaused ==
    [][ \A c \in Conns :
          ( /\ pc[c] # "done" /\ pc'[c] = "done"
            /\ Registered(heap', sessions', session'[c]) )
          => heap'[session'[c]].is_paused
      ]_vars

\* C5: a handler that reads stop_recording delivers one event more to its
\* client, the session_paused event with the final transcript and
\* can_resume, delivers nothing to other clients, and ends; its session is
\* then registered and paused, and an init frame with its session_id
\* would resume that very session.
C5_StopRecording ==
    [][ \A c \in Conns :
          RecvControl(c, [command |-> "stop_recording"])
          => LET s == heap'[session[c]]
                 again == create_or_resume_session(heap', sessions', c,
                              s.session_id, NoId, uuids', now')
             IN /\ events'[c] = Append(events[c],
                        [ type |-> "session_paused",
                          session_id |-> s.session_id,
                          final_transcript |-> get_full_text(heap[session[c]]),
                          can_resume |-> TRUE,
                          resume_timeout_minutes |-> 10 ])
                /\ \A k \in Conns \ {c} : events'[k] = events[k]
                /\ pc'[c] = "done"
                /\ Registered(heap', sessions', session[c])
                /\ s.is_paused
                /\ again.is_resumed /\ again.session = session[c]
      ]_vars

\* the client of handler c has sent no init frame
NoInit(c) == first_message[c].kind \in {"timeout", "bytes"}

\* all the audio the client of handler c has sent so far is one frame
\* holding one window of speech
SentOneWindow(c) ==
    \/ /\ first_message[c] = [kind |-> "bytes", bytes |-> Window]
       /\ frames[c] = 0
    \/ /\ first_message[c].kind = "timeout"
       /\ frames[c] = 1
       /\ message[c] = [kind |-> "bytes", bytes |-> Window]

\* the transcription events delivered on websocket c
Transcriptions(c) == SelectSeq(events[c], LAMBDA e : e.type = "transcription")

\* C6: when a client without init frame has sent one window of speech and
\* its handler waits for the next frame, the window has gone to
\* transcribe_stream and at most one transcription event was delivered; when
\* a handler without init frame has ended and nobody resumed its session,
\* the session is registered and paused.
C6_OneWindowOneTranscription ==
    \A c \in LoopConns :
        /\ (NoInit(c) /\ SentOneWindow(c) /\ pc[c] = "receive")
           => /\ call[c].audio = Window
              /\ Len(Transcriptions(c)) <= 1
        /\ ( /\ NoInit(c) /\ pc[c] = "done"
             /\ \A k \in LoopConns \ {c} : session[k] # session[c] )
           => /\ Registered(heap, sessions, session[c])
              /\ heap[session[c]].is_paused

\* C7: a handler that reads a text frame that is no JSON keeps waiting for
\* frames; no session is written and no websocket is closed.
C7_BadJsonIsNoOp ==
    [][ \A c \in Conns :
          RecvMalformed(c, "bad_json")
          => /\ pc'[c] = "receive"
             /\ heap' = heap
             /\ ws_open' = ws_open
      ]_vars

\* the commands _handle_control_message knows
KnownCommands ==
    {"stop_recording", "get_transcript", "clear_transcript", "get_session_info"}

\* C8: a handler that reads a JSON object with a command it does not know
\* delivers no event, writes no session, closes nothing and waits for the
\* next frame.
C8_UnknownCommandIgnored ==
    [][ \A c \in LoopConns : \A cmd \in Commands \ KnownCommands :
          RecvControl(c, [command |-> cmd])
          => /\ events' = events
             /\ heap' = heap
             /\ sessions' = sessions
             /\ ws_open' = ws_open
             /\ audio_processor' = audio_processor
             /\ pc'[c] = "receive"
      ]_vars

\* C8, its case: the last frame a waiting handler read was a command it
\* does not know, read after text had come into the session's buffer
C8_Witness ==
    \E c \in LoopConns :
        /\ pc[c] = "receive" /\ ws_open[c]
        /\ \E cmd \in Commands \ KnownCommands :
              message[c] = [kind |-> "text", data |-> [command |-> cmd]]
        /\ frames[c] = 2
        /\ heap[session[c]].current_buffer # << >>
        /\ ~heap[session[c]].is_paused

\* C9: when the engine fails, transcribe_stream returns empty text,
\* is_final False and the context it was given; the handler then delivers no
\* event, leaves the session's transcript, buffer and word context as they
\* were and waits for the next frame.
C9_EngineFailureIsEmptyResult ==
    [][ \A c \in LoopConns : \A e \in EngineFails :
          TranscribeDone(c, e)
          => LET r == transcribe_stream(call[c].audio, call[c].context_words, e)
                 old == heap[session[c]]
                 new == heap'[session[c]]
             IN /\ r.text = << >>
                /\ ~r.is_final
                /\ r.context = call[c].context_words
                /\ events' = events
                /\ new.full_transcript = old.full_transcript
                /\ new.current_buffer = old.current_buffer
                /\ new.word_history = old.word_history
                /\ ws_open' = ws_open
                /\ pc'[c] = "receive"
      ]_vars

\* C9, its case: a handler waits for the next frame after its second
\* transcribe_stream call, made with word context from a first sentence,
\* came back with nothing: no event but those of the first sentence was
\* delivered and the word context is still the one given to the call
C9_Witness ==
    \E c \in LoopConns :
        /\ pc[c] = "receive" /\ frames[c] = 2
        /\ message[c].kind = "bytes"
        /\ call[c].audio = Window
        /\ call[c].context_words = Split(Sentence)
        /\ heap[session[c]].word_history = call[c].context_words
        /\ heap[session[c]].full_transcript = << Sentence >>
        /\ heap[session[c]].current_buffer = << >>
        /\ Len(Transcriptions(c)) = 1

\* C10: while the action extraction for a sentence is going on and the
\* client is there, the handler can read the next binary frame.
C10_ExtractionNotAwaited ==
    \A c \in LoopConns :
        (pc[c] = "extract" /\ ws_open[c])
        => ENABLED (\E a \in AudioChunks : RecvBytes(c, a))

\* C11: a handler forms a window only while it waits in receive(), so never
\* while a transcription or an extraction of its own is going on; the window
\* it hands to transcribe_stream is the one add_audio_chunk just returned;
\* events already delivered on its websocket stay in place, and a
\* transcription event is added only, one at a time, by the step that ends
\* the transcription of the window in flight.
C11_SequentialWindows ==
    [][ \A c \in LoopConns :
          /\ ( /\ pc[c] # "idle"
               /\ \/ call'[c] # call[c]
                  \/ audio_processor'[c] # audio_processor[c]
                  \/ frames'[c] # frames[c] )
             => pc[c] = "receive"
          /\ (pc[c] = "receive" /\ pc'[c] = "transcribe")
             => /\ message'[c].kind = "bytes"
                /\ call'[c].audio =
                     add_audio_chunk(audio_processor[c], message'[c].bytes).result
          /\ Len(events'[c]) >= Len(events[c])
          /\ SubSeq(events'[c], 1, Len(events[c])) = events[c]
          /\ Transcriptions(c)' # Transcriptions(c)
             => /\ pc[c] = "transcribe"
                /\ Len(Transcriptions(c)') = Len(Transcriptions(c)) + 1
                /\ \E e \in Engines :
                      /\ TranscribeDone(c, e)
                      /\ Transcriptions(c)'[Len(Transcriptions(c)')].text =
                           transcribe_stream(call[c].audio, call[c].context_words, e).text
      ]_vars

\* C11, its case: a handler has delivered the transcription events of two
\* windows, a sentence first and a fragment second
C11_Witness ==
    \E c \in LoopConns :
        /\ pc[c] = "receive" /\ frames[c] = 2
        /\ Len(Transcriptions(c)) = 2
        /\ Transcriptions(c)[1].text = Sentence
        /\ Transcriptions(c)[2].text = Fragment

(* ------------------ the AudioProcessor on its own ---------------------- *)
\* SegSpec: one AudioProcessor, built with VAD on or off, is given chunks
\* of up to MaxFedWindows windows in total.  The processor is
\* audio_processor[1]; fed and returned record what went in and came out.
SegInit ==
    /\ heap = << >>
    /\ sessions = << >>
    /\ uuids = 0
    /\ now = 0
    /\ vad_enabled \in BOOLEAN
    /\ pc = [c \in Conns |-> "idle"]
    /\ session = [c \in Conns |-> NoWs]
    /\ is_resumed = [c \in Conns |-> FALSE]
    /\ audio_processor = [c \in Conns |-> AudioProcessor(vad_enabled)]
    /\ call = [c \in Conns |-> NoCall]
    /\ first_message = [c \in Conns |-> NoMessage]
    /\ message = [c \in Conns |-> NoMessage]
    /\ frames = [c \in Conns |-> 0]
    /\ ws_open = [c \in Conns |-> FALSE]
    /\ events = [c \in Conns |-> << >>]
    /\ cleanup_pc = "sleep"
    /\ inactive_sessions = << >>
    /\ fed = << >>
    /\ returned = << >>
    /\ stop_pc = "idle"
    /\ checked_text = << >>
    /\ checked_final = << >>

\* audio_processor.add_audio_chunk(audio_data), lines 48-63
AddChunk(audio_data) ==
    /\ LET r == add_audio_chunk(audio_processor[1], audio_data) IN
       /\ audio_processor' = [audio_processor EXCEPT ![1] = r.ap]
       /\ fed' = fed \o audio_data
       /\ returned' = IF r.result # << >> THEN Append(returned, r.result)
                      ELSE returned
    /\ UNCHANGED << heap, sessions, uuids, now, vad_enabled, pc, session,
                    is_resumed, call, first_message, message, frames,
                    ws_open, events, cleanup_pc, inactive_sessions, stop_pc,
                    checked_text, checked_final >>

\* the chunks: none, a sub-frame of silence, a window of speech, a window
\* on which the detector raises, a window of speech and one of silence in
\* one chunk
SegChunks ==
    { << >>,
      [i \in 1..chunk_size |-> 0],
      Window,
      [i \in 1..buffer_size |-> 2],
      Window \o [i \in 1..buffer_size |-> 0] }

SegNext ==
    \E a \in SegChunks :
        Len(fed) + Len(a) <= MaxFedWindows * buffer_size /\ AddChunk(a)

SegSpec == SegInit /\ [][SegNext]_vars

\* the bytes of a sequence of windows, in order
RECURSIVE Flatten(_)
Flatten(ws) == IF ws = << >> THEN << >> ELSE Head(ws) \o Flatten(Tail(ws))

\* C12: with VAD off, whenever the bytes given so far make up a whole
\* number of windows, that many windows have been returned, each of
\* buffer_size bytes, and together they are the bytes given, in order.
C12_WindowsPartitionInput ==
    (~vad_enabled /\ Len(fed) % buffer_size = 0)
    => /\ Len(returned) = Len(fed) \div buffer_size
       /\ \A i \in 1..Len(returned) : Len(returned[i]) = buffer_size
       /\ Flatten(returned) = fed

\* C13: a call of add_audio_chunk returns nothing or exactly buffer_size
\* bytes, the first ones pending; when fewer than buffer_size bytes are
\* pending after the chunk is added all of them stay pending and nothing
\* is returned, otherwise what follows the first buffer_size bytes stays
\* pending.
C13_WindowsHaveFullSize ==
    [][ \A a \in SegChunks :
          AddChunk(a)
          => LET buf == audio_processor[1].audio_buffer \o a
                 r == add_audio_chunk(audio_processor[1], a)
             IN /\ r.result # << >>
                   => /\ Len(r.result) = buffer_size
                      /\ r.result = SubSeq(buf, 1, buffer_size)
                /\ Len(buf) < buffer_size
                   => r.result = << >> /\ r.ap.audio_buffer = buf
                /\ Len(buf) >= buffer_size
                   => r.ap.audio_buffer = SubSeq(buf, buffer_size + 1, Len(buf))
                /\ \A i \in 1..Len(returned') : Len(returned'[i]) = buffer_size
      ]_vars

\* C13, its case: with VAD on a window has been returned and a part of a
\* window is pending
C13_Witness ==
    /\ vad_enabled
    /\ returned # << >>
    /\ audio_processor[1].audio_buffer # << >>
    /\ Len(audio_processor[1].audio_buffer) < buffer_size
    /\ Len(fed) > buffer_size

\* C14: a call of add_audio_chunk with an empty chunk returns nothing and
\* leaves the processor as it was.
C14_EmptyChunkIsNoOp ==
    [][ AddChunk(<< >>)
        => /\ returned' = returned
           /\ audio_processor' = audio_processor
      ]_vars

\* VadSpec: one AudioProcessor with VAD on is given sub-frames and windows
\* without end; fed and returned hold the last chunk and what the last call
\* returned.  The run counters stop at MaxRun.
VadInit == SegInit /\ vad_enabled

\* audio_processor.add_audio_chunk(audio_data), lines 48-63
FeedChunk(audio_data) ==
    /\ audio_processor[1].speech_frames < MaxRun
    /\ audio_processor[1].silence_frames < MaxRun
    /\ LET r == add_audio_chunk(audio_processor[1], audio_data) IN
       /\ audio_processor' = [audio_processor EXCEPT ![1] = r.ap]
       /\ fed' = audio_data
       /\ returned' = IF r.result # << >> THEN << r.result >> ELSE << >>
    /\ UNCHANGED << heap, sessions, uuids, now, vad_enabled, pc, session,
                    is_resumed, call, first_message, message, frames,
                    ws_open, events, cleanup_pc, inactive_sessions, stop_pc,
                    checked_text, checked_final >>

\* the chunks: a sub-frame of silence or of speech, a window of silence or
\* of speech, a window on which the detector raises
VadChunks ==
    { [i \in 1..chunk_size |-> 0],
      [i \in 1..chunk_size |-> 1],
      [i \in 1..buffer_size |-> 0],
      Window,
      [i \in 1..buffer_size |-> 2] }

VadNext == \E a \in VadChunks : FeedChunk(a)

VadSpec == VadInit /\ [][VadNext]_vars

\* the sub-frames of a window the detector takes for speech
SpeechSubFrames(w) ==
    {k \in 1..Len(chunk_audio(w)) : vad_is_speech(chunk_audio(w)[k]) = "speech"}

\* the detector raises on a sub-frame of the window
DetectorRaises(w) ==
    \E k \in 1..Len(chunk_audio(w)) : vad_is_speech(chunk_audio(w)[k]) = "raise"

\* the speech ratio of the window is above the speech threshold of 0.3
AboveThreshold(w) ==
    /\ ~DetectorRaises(w)
    /\ chunk_audio(w) # << >>
    /\ Cardinality(SpeechSubFrames(w)) * 10 > 3 * Len(chunk_audio(w))

\* below it
BelowThreshold(w) == ~DetectorRaises(w) /\ ~AboveThreshold(w)

\* the window the call add_audio_chunk(a) slices off, << >> if none
Sliced(a) ==
    LET buf == audio_processor[1].audio_buffer \o a
    IN IF Len(buf) >= buffer_size THEN SubSeq(buf, 1, buffer_size) ELSE << >>

\* C15: with VAD on and speech-active off, a window above the threshold
\* that starts a speech run is not returned and leaves speech-active off;
\* the window above the threshold that follows it is returned and turns
\* speech-active on; a window below the threshold sets the speech run to 0.
C15_Hysteresis ==
    [][ \A a \in VadChunks :
          (FeedChunk(a) /\ Sliced(a) # << >>)
          => LET old == audio_processor[1]
                 new == audio_processor'[1]
                 w == Sliced(a)
             IN /\ (AboveThreshold(w) /\ ~old.is_speech_active /\ old.speech_frames = 0)
                   => /\ ~new.is_speech_active
                      /\ new.speech_frames = 1
                      /\ returned' = << >>
                /\ (AboveThreshold(w) /\ ~old.is_speech_active /\ old.speech_frames = 1)
                   => /\ new.is_speech_active
                      /\ returned' = << w >>
                /\ BelowThreshold(w)
                   => new.speech_frames = 0
      ]_vars

\* C15, its case: the second window of a speech run has been returned and
\* speech-active is on
C15_Witness ==
    /\ audio_processor[1].speech_frames = 2
    /\ audio_processor[1].is_speech_active
    /\ returned = << Window >>

\* sub-frames in a window
SubFramesPerWindow == buffer_size \div chunk_size

\* C16: speech-active is off once 30 non-speech sub-frames in a row have
\* been seen.  silence_frames windows in a row were below the threshold; a
\* window of fewer than four sub-frames that is below the threshold of 0.3
\* holds no speech sub-frame, so that many windows' sub-frames were all
\* non-speech.
C16_OffAfterThirtySubFrames ==
    (audio_processor[1].silence_frames * SubFramesPerWindow >= 30)
    => ~audio_processor[1].is_speech_active

\* C17: with VAD on, a window with a sub-frame on which the detector raises
\* is returned, whether speech-active is on or off, and the counters and
\* the flag stay as they were.
C17_DetectorErrorFailsOpen ==
    [][ \A a \in VadChunks :
          (FeedChunk(a) /\ Sliced(a) # << >> /\ DetectorRaises(Sliced(a)))
          => /\ returned' = << Sliced(a) >>
             /\ audio_processor'[1].speech_frames = audio_processor[1].speech_frames
             /\ audio_processor'[1].silence_frames = audio_processor[1].silence_frames
             /\ audio_processor'[1].is_speech_active = audio_processor[1].is_speech_active
      ]_vars

\* C17, its case: with speech-active off after a window of silence, a
\* window on which the detector raises has been returned
C17_Witness ==
    /\ ~audio_processor[1].is_speech_active
    /\ audio_processor[1].silence_frames = 1
    /\ fed = [i \in 1..buffer_size |-> 2]
    /\ returned = << fed >>

(* ---------------------- a Session on its own --------------------------- *)
\* TextSpec: one Session, heap[1], is given final and partial texts.
TextInit ==
    /\ heap = << Session("s1", 1, 0) >>
    /\ sessions = << >>
    /\ uuids = 0
    /\ now = 0
    /\ vad_enabled = FALSE
    /\ pc = [c \in Conns |-> "idle"]
    /\ session = [c \in Conns |-> NoWs]
    /\ is_resumed = [c \in Conns |-> FALSE]
    /\ audio_processor = [c \in Conns |-> AudioProcessor(FALSE)]
    /\ call = [c \in Conns |-> NoCall]
    /\ first_message = [c \in Conns |-> NoMessage]
    /\ message = [c \in Conns |-> NoMessage]
    /\ frames = [c \in Conns |-> 0]
    /\ ws_open = [c \in Conns |-> FALSE]
    /\ events = [c \in Conns |-> << >>]
    /\ cleanup_pc = "sleep"
    /\ inactive_sessions = << >>
    /\ fed = << >>
    /\ returned = << >>
    /\ stop_pc = "idle"
    /\ checked_text = << >>
    /\ checked_final = << >>

\* session.add_to_transcript(text, is_final), lines 29-34
AddToTranscript(text, is_final) ==
    /\ (is_final /\ Strip(text) # << >>)
       => Len(heap[1].full_transcript) < MaxHistory
    /\ heap' = [heap EXCEPT ![1] = add_to_transcript(@, text, is_final)]
    /\ UNCHANGED << sessions, uuids, now, vad_enabled, pc, session,
                    is_resumed, audio_processor, call, first_message,
                    message, frames, ws_open, events, cleanup_pc,
                    inactive_sessions, fed, returned, stop_pc, checked_text, checked_final >>

\* the texts: "", " ", " a", "b", "c d "
Texts ==
    { << >>, << " " >>, << " ", "a" >>, << "b" >>, << "c", " ", "d", " " >> }

TextNext == \E text \in Texts : \E is_final \in BOOLEAN : AddToTranscript(text, is_final)

TextSpec == TextInit /\ [][TextNext]_vars

\* C18: add_to_transcript with a final text that is not blank appends the
\* text, without the whitespace around it, to full_transcript and empties
\* current_buffer; with a final text that is blank it leaves
\* full_transcript as it was; with a partial text it makes the text the
\* current_buffer and leaves full_transcript as it was.
C18_AddToTranscript ==
    [][ \A text \in Texts : \A is_final \in BOOLEAN :
          AddToTranscript(text, is_final)
          => LET old == heap[1]
                 new == heap'[1]
                 blank == \A i \in 1..Len(text) : text[i] = " "
                 last == new.full_transcript[Len(new.full_transcript)]
             IN /\ (is_final /\ ~blank)
                   => /\ Len(new.full_transcript) = Len(old.full_transcript) + 1
                      /\ SubSeq(new.full_transcript, 1, Len(old.full_transcript))
                           = old.full_transcript
                      /\ last # << >>
                      /\ last[1] # " " /\ last[Len(last)] # " "
                      /\ \E i, j \in 1..Len(text) : last = SubSeq(text, i, j)
                      /\ new.current_buffer = << >>
                /\ (is_final /\ blank)
                   => new.full_transcript = old.full_transcript
                /\ ~is_final
                   => /\ new.current_buffer = text
                      /\ new.full_transcript = old.full_transcript
      ]_vars

\* C18, its case: two texts were appended, stripped, and a partial text is
\* in the buffer
C18_Witness ==
    /\ heap[1].full_transcript = << << "a" >>, << "c", " ", "d" >> >>
    /\ heap[1].current_buffer = << "b" >>

\* C19: get_full_text gives the entries of full_transcript and then, if it
\* is not empty, current_buffer, with one space between one and the next
\* and none before the first or after the last.
C19_GetFullText ==
    get_full_text(heap[1]) =
        Join(heap[1].full_transcript
             \o (IF heap[1].current_buffer # << >>
                 THEN << heap[1].current_buffer >> ELSE << >>))

\* C20: the full_transcript of a Session changes only when a handler
\* working on it gets a final result, by the result's stripped text being
\* appended, or reads clear_transcript, by becoming empty; a result that is
\* not final leaves full_transcript and word_history of the handler's
\* session as they were and, if it has text, makes the text the
\* current_buffer.
C20_HistoryAppendOnly ==
    [][ /\ \A ref \in DOMAIN heap :
            heap'[ref].full_transcript # heap[ref].full_transcript
            => \/ \E c \in LoopConns : \E e \in Engines :
                    LET r == transcribe_stream(call[c].audio, call[c].context_words, e)
                    IN /\ TranscribeDone(c, e)
                       /\ session[c] = ref
                       /\ r.is_final
                       /\ heap'[ref].full_transcript =
                            Append(heap[ref].full_transcript, Strip(r.text))
               \/ \E c \in LoopConns :
                    /\ RecvControl(c, [command |-> "clear_transcript"])
                    /\ session[c] = ref
                    /\ heap'[ref].full_transcript = << >>
        /\ \A c \in LoopConns : \A e \in Engines :
            LET r == transcribe_stream(call[c].audio, call[c].context_words, e)
            IN (TranscribeDone(c, e) /\ ~r.is_final)
               => /\ heap'[session[c]].full_transcript = heap[session[c]].full_transcript
                  /\ heap'[session[c]].word_history = heap[session[c]].word_history
                  /\ heap'[session[c]].current_buffer =
                       IF r.text # << >> THEN r.text ELSE heap[session[c]].current_buffer
      ]_vars

\* C20, its case: after a final sentence a partial text has come for the
\* same session: the sentence is the history, the partial the buffer
C20_Witness ==
    \E c \in LoopConns :
        /\ pc[c] = "receive" /\ frames[c] = 2
        /\ heap[session[c]].full_transcript = << Sentence >>
        /\ heap[session[c]].current_buffer = Fragment
        /\ heap[session[c]].word_history = Split(Sentence)

(* ------------- WhisperClient._is_sentence_complete on its own ---------- *)
\* FinalSpec: _is_sentence_complete is called once on a text of up to
\* MaxWords two-letter words, with or without a sentence ending and
\* surrounding blanks, or on one of the short example texts.
MaxWords == 27

Words(k) == Join([i \in 1..k |-> << "a", "b" >>])

Hi == << "h", "i" >>

ThisIsASentence ==
    << "T", "h", "i", "s", " ", "i", "s", " ", "a", " ",
       "s", "e", "n", "t", "e", "n", "c", "e", "." >>

FinalTexts ==
    { lead \o Words(k) \o ending \o trail :
        k \in 0..MaxWords,
        ending \in { << >>, << "." >>, << "U+FF1F" >> },
        lead \in { << >>, << " " >> },
        trail \in { << >>, << " " >> } }
    \cup { Hi, Hi \o << "." >>, Hi \o << "!" >>, ThisIsASentence }

FinalInit ==
    /\ heap = << >>
    /\ sessions = << >>
    /\ uuids = 0
    /\ now = 0
    /\ vad_enabled = FALSE
    /\ pc = [c \in Conns |-> "idle"]
    /\ session = [c \in Conns |-> NoWs]
    /\ is_resumed = [c \in Conns |-> FALSE]
    /\ audio_processor = [c \in Conns |-> AudioProcessor(FALSE)]
    /\ call = [c \in Conns |-> NoCall]
    /\ first_message = [c \in Conns |-> NoMessage]
    /\ message = [c \in Conns |-> NoMessage]
    /\ frames = [c \in Conns |-> 0]
    /\ ws_open = [c \in Conns |-> FALSE]
    /\ events = [c \in Conns |-> << >>]
    /\ cleanup_pc = "sleep"
    /\ inactive_sessions = << >>
    /\ fed = << >>
    /\ returned = << >>
    /\ stop_pc = "idle"
    /\ checked_text \in FinalTexts
    /\ checked_final = << >>

\* self._is_sentence_complete(checked_text), lines 104-124
IsSentenceComplete ==
    /\ checked_final = << >>
    /\ checked_final' = << is_sentence_complete(checked_text) >>
    /\ UNCHANGED << heap, sessions, uuids, now, vad_enabled, pc, session,
                    is_resumed, audio_processor, call, first_message,
                    message, frames, ws_open, events, cleanup_pc,
                    inactive_sessions, fed, returned, stop_pc, checked_text >>

FinalNext == IsSentenceComplete

FinalSpec == FinalInit /\ [][FinalNext]_vars

\* C21: the answer of _is_sentence_complete depends on the stripped text
\* only: it is True exactly when that text has at least 20 characters and
\* either ends with one of . ! ? or their full-width forms, or has more
\* than 25 whitespace-delimited words.
C21_SentenceComplete ==
    checked_final # << >>
    => LET t == Strip(checked_text) IN
       checked_final[1] =
           ( /\ Len(t) >= 20
             /\ \/ t[Len(t)] \in {".", "!", "?", "U+3002", "U+FF01", "U+FF1F"}
                \/ Len(Split(t)) > 25 )

\* C21, its case: a text of at least 20 characters that ends with a
\* sentence ending followed by a blank has been answered
C21_Witness ==
    /\ checked_final = << TRUE >>
    /\ Len(checked_text) >= 20
    /\ checked_text[Len(checked_text)] = " "
    /\ Len(Split(checked_text)) <= 25

\* C22: "hi" is not final, with or without punctuation; "This is a
\* sentence." is final; a sentence of 26 words without punctuation is
\* final; a sentence of 10 words without punctuation is not.
C22_Examples ==
    checked_final # << >>
    => /\ checked_text \in { Hi, Hi \o << "." >>, Hi \o << "!" >> } => ~checked_final[1]
       /\ checked_text = ThisIsASentence => checked_final[1]
       /\ checked_text = Words(26) => checked_final[1]
       /\ checked_text = Words(10) => ~checked_final[1]

C24_CloseFailureSwallowed ==
    [][ CleanupClosed("raised")
        => /\ ~HasKey(sessions', Head(inactive_sessions))
           /\ \A j \in 2..Len(inactive_sessions) :
                 \/ ~HasKey(sessions', inactive_sessions[j])
                 \/ /\ cleanup_pc' = "close"
                    /\ \E k \in 1..Len(inactive_sessions') :
                           inactive_sessions'[k] = inactive_sessions[j]
           /\ cleanup_pc' \in {"sleep", "close"}
           /\ cleanup_pc' = "sleep" => inactive_sessions' = << >>
      ]_vars

\* C24, its case: the reaper has closed the websocket of a session, removed
\* it and a second candidate, and is asleep again
C24_Witness ==
    /\ cleanup_pc = "sleep"
    /\ \E a, b \in DOMAIN heap :
          /\ a # b
          /\ ~heap[a].is_active /\ heap[a].websocket # NoWs
          /\ ~ws_open[heap[a].websocket]
          /\ ~heap[b].is_active

\* C25: a Session that has been removed from the registry is never in the
\* registry again, and its paused state, pause time and websocket never
\* change again, whatever the handlers and the reaper do afterwards.
C25_RemovedIsTerminal ==
    [][ \A ref \in DOMAIN heap :
          ~heap[ref].is_active
          => /\ ~heap'[ref].is_active
             /\ heap'[ref].is_paused = heap[ref].is_paused
             /\ heap'[ref].paused_at = heap[ref].paused_at
             /\ heap'[ref].websocket = heap[ref].websocket
             /\ \A i \in 1..Len(sessions') : sessions'[i].ref # ref
      ]_vars

\* C25, its case: the reaper removed a session that was not paused, and the
\* handler that owned it has ended since, through pause_session
C25_Witness ==
    \E c \in Conns :
        /\ pc[c] = "done"
        /\ session[c] # NoWs
        /\ ~heap[session[c]].is_active
        /\ ~heap[session[c]].is_paused

\* C27: the reaper removes a session, and closes its websocket, only when
\* the session is over its time at that moment.
C27_ExpiredAtRemoval ==
    [][ (CleanupWake \/ \E o \in CloseOutcomes : CleanupClosed(o))
        => \A i \in 1..Len(sessions) :
             LET e == sessions[i]
                 s == heap[e.ref]
                 over == \/ s.is_paused /\ now - s.paused_at > SessionPersistence
                         \/ ~s.is_paused /\ now - s.last_activity > SessionTimeout
             IN ( \/ ~HasKey(sessions', e.id)
                  \/ /\ s.websocket # NoWs
                     /\ ws_open[s.websocket] /\ ~ws_open'[s.websocket] )
                => over
      ]_vars

(* ----------------------- SessionManager.stop --------------------------- *)
\* StopSpec: up to MaxStopConns handlers that get no init frame, the clock,
\* the reaper, and SessionManager.stop called at any moment.
MaxStopConns == 2

StopNext ==
    \/ \E c \in 1..MaxStopConns :
          \E m \in { [kind |-> "timeout"], [kind |-> "disconnect"] } : Startup(c, m)
    \/ \E c \in 1..MaxStopConns : RecvDisconnect(c)
    \/ Tick
    \/ CleanupWake
    \/ \E o \in CloseOutcomes \cup {"cancelled"} : CleanupClosed(o)
    \/ StopInSleep
    \/ StopReturns

StopSpec == SpecInit /\ [][StopNext]_vars

\* C26: once SessionManager.stop has cancelled the reaper at the point
\* where it was suspended, the reaper task has ended, so that the await of
\* stop returns.
C26_StopEndsReaper ==
    stop_pc # "idle" => cleanup_pc = "done"

(* ----------------------- the lifecycle event --------------------------- *)
\* C28: the first event delivered on a websocket is the lifecycle event of
\* its own handler: session_resumed with is_resumed true and the history the
\* session had stored when a paused session was resumed, session_started
\* with is_resumed false and an empty transcript otherwise.  When the wait
\* for the init frame times out, the session is a new object with a new id.
C28_LifecycleFirst ==
    [][ /\ \A c \in Conns :
              events'[c] # << >>
              => events'[c][1].type \in {"session_started", "session_resumed"}
        /\ \A c \in LoopConns :
           \A m \in OtherFirstMessages
                    \cup InitMessages(IssuedIds \cup {NoId, "x"}, {NoId, "tok"}) :
              (Startup(c, m) /\ pc'[c] = "receive")
              => /\ events[c] = << >>
                 /\ Len(events'[c]) = 1
                 /\ events'[c][1].session_id = heap'[session'[c]].session_id
                 /\ events'[c][1].is_resumed = is_resumed'[c]
                 /\ IF is_resumed'[c]
                    THEN /\ session'[c] \in DOMAIN heap
                         /\ heap[session'[c]].is_paused
                         /\ events'[c][1].type = "session_resumed"
                         /\ events'[c][1].transcript = heap[session'[c]].full_transcript
                    ELSE /\ events'[c][1].type = "session_started"
                         /\ events'[c][1].transcript = << >>
                 /\ m.kind = "timeout"
                    => /\ ~is_resumed'[c]
                       /\ session'[c] \notin DOMAIN heap
                       /\ heap'[session'[c]].session_id \notin IssuedIds
                       /\ heap'[session'[c]].full_transcript = << >>
      ]_vars

\* C28, its case: a handler has resumed a session with a stored history and
\* its client has got the lifecycle event
C28_Witness ==
    \E c \in Conns :
        /\ is_resumed[c]
        /\ events[c] # << >>
        /\ events[c][1].type = "session_resumed"
        /\ events[c][1].transcript # << >>

(* ------------------------- the error path ------------------------------ *)
\* C29: a handler whose steady-state loop raises something other than a
\* disconnect (a text frame that is no JSON object, a send that fails)
\* delivers exactly one more event, of type error, when its websocket still
\* takes events, and none when it does not; in both cases the handler ends,
\* its websocket is closed and its session, if its id is registered, is
\* paused.
C29_ErrorPath ==
    [][ \A c \in Conns :
          ( \/ \E k \in {"bad_json", "not_object"} : RecvMalformed(c, k)
            \/ \E e \in Engines : TranscribeDone(c, e) /\ pc'[c] = "done" )
          => /\ pc'[c] = "done"
             /\ ~ws_open'[c]
             /\ IF ws_open[c]
                THEN /\ Len(events'[c]) = Len(events[c]) + 1
                     /\ events'[c][Len(events'[c])].type = "error"
                ELSE events'[c] = events[c]
             /\ \A k \in Conns \ {c} : events'[k] = events[k]
             /\ HasKey(sessions, heap[session[c]].session_id)
                => heap'[session[c]].is_paused
      ]_vars

(* ------------------------- the word context ---------------------------- *)
\* TalkSpec: one handler without init frame reads up to MaxTalkFrames
\* windows of audio; each is transcribed to one of two texts of 26 words,
\* to a fragment, to nothing, or the engine fails.
MaxTalkFrames == 5

LongText(w) == Join([i \in 1..(MaxOpenWords + 1) |-> << w >>])

TalkEngines ==
    Engines \cup { [kind |-> "segments", segs |-> << Seg(LongText(w)) >>] : w \in {"a", "b"} }

TalkNext ==
    \/ Startup(1, [kind |-> "timeout"])
    \/ frames[1] < MaxTalkFrames /\ RecvBytes(1, Window)
    \/ \E e \in TalkEngines : TranscribeDone(1, e)
    \/ ExtractDone(1, "no_actions")

TalkSpec == SpecInit /\ [][TalkNext]_vars

\* ShareSpec: up to MaxConns handlers at once, started with init frames;
\* each reads at most MaxFrames frames, a clear_transcript command or a
\* window of audio, transcribed to a sentence or to a fragment; no clock
\* and no reaper.
ShareEngines ==
    { [kind |-> "segments", segs |-> << Seg(t) >>] : t \in {Sentence, Fragment} }

ShareNext ==
    \/ \E c \in Conns : \E m \in InitMessages(IssuedIds \cup {NoId}, {NoId}) : Startup(c, m)
    \/ \E c \in Conns : frames[c] < MaxFrames /\ RecvBytes(c, Window)
    \/ \E c \in Conns :
          frames[c] < MaxFrames /\ RecvControl(c, [command |-> "clear_transcript"])
    \/ \E c \in Conns : RecvDisconnect(c)
    \/ \E c \in Conns : \E e \in ShareEngines : TranscribeDone(c, e)
    \/ \E c \in Conns : ExtractDone(c, "no_actions")

ShareSpec == SpecInit /\ [][ShareNext]_vars

\* C30: no session's word context is ever longer than 100 words; a step
\* changes a word context only when it is the return of a transcription
\* with a final text for a handler of that session; and every such return
\* leaves the context equal to the last 100 words of what it was before
\* followed by the words of the text.
C30_WordContext ==
    [][ /\ \A ref \in DOMAIN heap' : Len(heap'[ref].word_history) <= 100
        /\ \A ref \in DOMAIN heap :
              heap'[ref].word_history # heap[ref].word_history
              => \E c \in Conns : \E e \in TalkEngines :
                    /\ session[c] = ref
                    /\ TranscribeDone(c, e)
                    /\ transcribe_stream(call[c].audio, call[c].context_words, e).is_final
        /\ \A c \in Conns : \A e \in TalkEngines :
              LET r == transcribe_stream(call[c].audio, call[c].context_words, e)
                  before == heap[session[c]].word_history
                  joined == before \o Split(r.text)
              IN (TranscribeDone(c, e) /\ r.is_final)
                 => heap'[session[c]].word_history =
                       IF Len(joined) <= 100 THEN joined
                       ELSE SubSeq(joined, Len(joined) - 99, Len(joined))
      ]_vars

(* ------------------- ownership of a session in use --------------------- *)
\* C31: when a handler ends, the session of every other live handler keeps
\* its paused flag and its websocket: a session in use is not paused by the
\* end of another connection.
C31_EndPausesOwnSessionOnly ==
    [][ \A a, b \in Conns :
          (a # b /\ Live(a) /\ pc'[a] = "done" /\ Live(b))
          => /\ heap'[session[b]].is_paused = heap[session[b]].is_paused
             /\ heap'[session[b]].websocket = heap[session[b]].websocket
      ]_vars

\* C32: the session of a live handler, unless the reaper has removed it, is
\* the Session object the registry holds under its id.
C32_LiveSessionRegistered ==
    \A c \in Conns :
        (Live(c) /\ heap[session[c]].is_active)
        => Registered(heap, sessions, session[c])

\* C33: every Session is paused exactly when it has a pause time, and a
\* paused Session has no websocket.
C33_PausedFields ==
    \A ref \in DOMAIN heap :
        /\ heap[ref].is_paused <=> heap[ref].paused_at # NoTime
        /\ heap[ref].is_paused => heap[ref].websocket = NoWs

\* C33, its case: one session is paused, and a session that was paused has
\* been resumed by a handler
C33_Witness ==
    /\ \E ref \in DOMAIN heap : heap[ref].is_paused
    /\ \E c \in Conns :
          /\ Live(c) /\ is_resumed[c]
          /\ ~heap[session[c]].is_paused
          /\ heap[session[c]].websocket = c

(* ----------------------- the first frame ------------------------------- *)
\* C34: a handler whose first frame was audio, and that waits for its next
\* frame, has given that audio to its new session: the session's audio
\* buffer holds at least the bytes of the first frame.
C34_FirstFrameProcessed ==
    \A c \in Conns :
        ( /\ first_message[c].kind = "bytes"
          /\ pc[c] = "receive" )
        => heap[session[c]].audio_buffer >= Len(first_message[c].bytes)

C36_NoFullWindowPending ==
    Len(audio_processor[1].audio_buffer) < buffer_size

(* --------------------- activity and the reaper ------------------------- *)
\* IdleSpec: up to MaxStopConns handlers without init frame, each reading up
\* to MaxIdleFrames frames (commands that do not end the loop, a sub-frame
\* or a window of audio), the clock and the reaper.
MaxIdleFrames == 2

IdleNext ==
    \/ \E c \in 1..MaxStopConns : Startup(c, [kind |-> "timeout"])
    \/ \E c \in 1..MaxStopConns : \E cmd \in {"get_transcript", "ping"} :
          frames[c] < MaxIdleFrames /\ RecvControl(c, [command |-> cmd])
    \/ \E c \in 1..MaxStopConns : \E a \in {Window, [i \in 1..chunk_size |-> 0]} :
          frames[c] < MaxIdleFrames /\ RecvBytes(c, a)
    \/ \E c \in 1..MaxStopConns : \E e \in SpecEngines : TranscribeDone(c, e)
    \/ \E c \in 1..MaxStopConns : RecvDisconnect(c)
    \/ Tick
    \/ CleanupWake
    \/ \E o \in CloseOutcomes : CleanupClosed(o)

IdleSpec == SpecInit /\ [][IdleNext]_vars

\* C37: when a handler has processed an inbound frame, a command or audio,
\* and waits for the next one, its session, if not paused, is not over the
\* activity timeout at that moment, so that the reaper would not collect it:
\* the frame has refreshed last_activity.
C37_FrameRefreshesActivity ==
    [][ \A c \in Conns :
          ( /\ \/ \E cmd \in Commands \ {"stop_recording"} :
                     RecvControl(c, [command |-> cmd])
               \/ \E a \in AudioChunks : RecvBytes(c, a)
            /\ pc'[c] = "receive"
            /\ ~heap'[session[c]].is_paused )
          => ~(now - heap'[session[c]].last_activity > SessionTimeout)
      ]_vars

(* -------------------- the events of a result --------------------------- *)
\* C38: when transcribe_stream returns a text to a handler whose client is
\* there, the client gets a transcription event with that text.  When it is
\* final, the history has the stripped text appended and the buffer is
\* empty, the event carries the history joined, and one more event follows,
\* sentence_complete, whose total_sentences is the length of the history;
\* when it is not final, no other event follows.
C38_ResultEvents ==
    [][ \A c \in LoopConns : \A e \in Engines :
          LET r == transcribe_stream(call[c].audio, call[c].context_words, e)
              n == Len(events[c])
              s == heap'[session[c]]
          IN (TranscribeDone(c, e) /\ r.text # << >> /\ ws_open[c])
             => /\ Len(events'[c]) = IF r.is_final THEN n + 2 ELSE n + 1
                /\ SubSeq(events'[c], 1, n) = events[c]
                /\ events'[c][n + 1].type = "transcription"
                /\ events'[c][n + 1].text = r.text
                /\ events'[c][n + 1].is_final = r.is_final
                /\ r.is_final
                   => /\ s.full_transcript =
                            Append(heap[session[c]].full_transcript, Strip(r.text))
                      /\ s.current_buffer = << >>
                      /\ events'[c][n + 1].full_transcript = Join(s.full_transcript)
                      /\ events'[c][n + 2].type = "sentence_complete"
                      /\ events'[c][n + 2].sentence = r.text
                      /\ events'[c][n + 2].total_sentences = Len(s.full_transcript)
      ]_vars

\* C38, its case: a client has got the transcription event of a second
\* final text and the sentence_complete event after it
C38_Witness ==
    \E c \in LoopConns : \E i \in 1..Len(events[c]) :
        /\ i < Len(events[c])
        /\ events[c][i].type = "transcription"
        /\ events[c][i].is_final
        /\ events[c][i + 1].type = "sentence_complete"
        /\ events[c][i + 1].total_sentences = 2

(* ------------------------ clear_transcript ----------------------------- *)
\* C39: a handler that reads the clear_transcript command leaves its
\* session with an empty history and an empty buffer, delivers exactly one
\* event more to its client, transcript_cleared, and none to other clients,
\* and waits for the next frame; the word context, the action ledger, the
\* pause flag and pause time of the session, every other session, the
\* handler's AudioProcessor and the registry are as before.
C39_ClearTranscript ==
    [][ \A c \in Conns :
          RecvControl(c, [command |-> "clear_transcript"])
          => /\ heap'[session[c]] =
                   [heap[session[c]] EXCEPT !.full_transcript = << >>,
                                            !.current_buffer = << >>]
             /\ \A ref \in DOMAIN heap : ref # session[c] => heap'[ref] = heap[ref]
             /\ events'[c] = Append(events[c], [type |-> "transcript_cleared"])
             /\ \A k \in Conns \ {c} : events'[k] = events[k]
             /\ pc'[c] = "receive"
             /\ audio_processor' = audio_processor
             /\ sessions' = sessions
      ]_vars


====
